---- MODULE Spec2Model ----
(***************************************************************************)
(* GitHubAPIAnalyzer (src/github_analyzer_api.py): the rate-limit-aware    *)
(* request _make_api_request, the recursive walk fetch_directory_contents  *)
(* and the per-file analysis _analyze_file_content.                        *)
(*                                                                         *)
(* The program is sequential.  A step of the model is one piece of code    *)
(* between two blocking calls (requests.get, time.sleep) or one iteration  *)
(* of the loop over a listing.  The upstream API is the environment: the   *)
(* answer to a request is drawn, with \E, in the step that handles it.     *)
(*                                                                         *)
(* Names are tuples of dot-separated segments: "main.py" is <<"main","py">>*)
(* and ".git" is <<"", "git">>.  A path is a tuple of names.               *)
(***************************************************************************)
EXTENDS Naturals, Integers, Sequences, FiniteSets, TLC

VARIABLES
    pc,                    \* where the program is: idle, api_wait, sleeping, loop, dl_wait, done, raised
    stack,                 \* the frames of fetch_directory_contents, the root call first
    req,                   \* the request the program is blocked on (its URL and query parameters)
    now,                   \* time.time()
    reset_time,            \* the local reset_time of the call that sleeps (line 74)
    wakeAt,                \* the time the pending time.sleep ends
    rate_limit_remaining,  \* self.rate_limit_remaining
    file_count,            \* self.file_count
    functions,             \* self.functions
    classes,               \* self.classes
    returned,              \* the value the root call of fetch_directory_contents returned
    exc,                   \* the exception that left the walk, "none" while there is none
    file_info,             \* the entry _analyze_file_content is downloading
    served,                \* listing entries the upstream has served to this walk
    issued,                \* requests issued by the pending call of _make_api_request
    throttles,             \* throttled responses received by the pending call of _make_api_request
    repo_url,              \* the path of self.repo_url, as urlparse gives it: a tuple of characters
    owner,                 \* self.owner
    repo_name,             \* self.repo_name
    repo_info,             \* self.repo_info
    language_stats,        \* self.language_stats
    readme_content,        \* self.readme_content
    repo_structure,        \* self.repo_structure
    stage,                 \* where the pending call of analyze is, "none" outside analyze
    features,              \* the local features of analyze
    result,                \* what the last call of analyze returned
    runs,                  \* calls of analyze so far
    feature_runs,          \* calls of extract_features by the pending call of analyze
    source                 \* the text handed to an extractor called on its own

\* the fields __init__ derives from the URL
ctorVars == <<repo_url, owner, repo_name>>

\* the fields and locals that only analyze and the fetch_* methods assign
analyzeVars == <<repo_info, language_stats, readme_content, repo_structure, stage, features,
                 result, runs, feature_runs>>

vars == <<pc, stack, req, now, reset_time, wakeAt, rate_limit_remaining, file_count, functions,
          classes, returned, exc, file_info, served, issued, throttles, ctorVars, analyzeVars,
          source>>

---------------------------------------------------------------------------
(* Bounds of the model. *)

\* The upstream serves at most this many listing entries to one walk.
MaxEntries == 3

\* The clock stops at this tick: no throttled response asks for a later wake-up.
MaxTime == 2

\* A repository URL has a path of at most this many characters.
MaxUrlLen == 4

\* A tree handed to extract_features lists at most this many file names.
MaxListed == 2

\* A text handed to an extractor holds at most this many declarations.
MaxDecls == 2

\* analyze is called at most this many times on one analyzer.
MaxRuns == 2

---------------------------------------------------------------------------
(* Names, listing entries, file contents. *)

Last(s) == s[Len(s)]

\* str.lower() on the segments that occur.
Lower(seg) == IF seg = "C" THEN "c" ELSE seg

\* item['name'].startswith('.')
StartsWithDot(name) == Len(name) >= 2 /\ name[1] = ""

NodeModules == <<"node_modules">>
PyCache == <<"__pycache__">>
FilesKey == <<"__files">>

SkippedNoPyCache(name) == StartsWithDot(name) \/ name \in {NodeModules}

SkippedNoNodeModules(name) == StartsWithDot(name) \/ name \in {PyCache}

\* line 310: the entries the walk skips
Skipped(name) == StartsWithDot(name) \/ name \in {NodeModules, PyCache}

\* os.path.splitext(filename.lower())[1]: the text from the last dot, leading dots
\* not counted; "" when there is none
SplitExt(name) ==
    IF Len(name) >= 2 /\ (\E i \in 1..(Len(name) - 1) : name[i] # "")
    THEN Lower(Last(name))
    ELSE ""

CodeExtensions == {"py", "js", "java", "cpp", "c", "go", "rb", "php", "ts", "jsx", "tsx", "kt", "kts"}

\* _is_code_file
IsCodeFile(name) == SplitExt(name) \in CodeExtensions

\* line 347: the size ceiling of a file whose content is downloaded
FileSizeLimit == 500000

TooLargeOff(size) == size >= FileSizeLimit

TooLarge(size) == size > FileSizeLimit

Entry(n, t, s, u) == [name |-> n, type |-> t, size |-> s, download_url |-> u]

\* The entries a listing of the upstream may hold.
Items ==
    { Entry(<<"", "git">>, "dir", 0, FALSE),
      Entry(NodeModules, "dir", 0, FALSE),
      Entry(PyCache, "dir", 0, FALSE),
      Entry(<<"", "env">>, "file", 10, TRUE),
      Entry(<<"src">>, "dir", 0, FALSE),
      Entry(FilesKey, "dir", 0, FALSE),
      Entry(<<"main", "py">>, "file", FileSizeLimit, TRUE),
      Entry(<<"big", "py">>, "file", FileSizeLimit + 1, TRUE),
      Entry(<<"gen", "py">>, "file", 10, FALSE),
      Entry(<<"lib", "C">>, "file", 10, TRUE),
      Entry(<<"notes", "txt">>, "file", 10, TRUE) }

\* An identifier: its leading underscores and the rest.
Ident(u, b) == [us |-> u, base |-> b]

\* A source text, as the definitions a matcher finds in it.
PySource ==
    << [kw |-> "def", name |-> Ident(0, "run"), args |-> "self, x"],
       [kw |-> "def", name |-> Ident(1, "helper"), args |-> ""],
       [kw |-> "class", name |-> Ident(0, "A"), args |-> "B"] >>

Contents == { <<>>, PySource }

---------------------------------------------------------------------------
(* A node of the tree: a Python dict, as the list of its entries in        *)
(* insertion order.  A value is a list of names or a sub-tree.             *)

EmptyNode == <<>>

ListVal(l) == [isList |-> TRUE, list |-> l, sub |-> <<>>]
DictVal(n) == [isList |-> FALSE, list |-> <<>>, sub |-> n]

HasKey(node, k) == \E i \in DOMAIN node : node[i].key = k
KeyIndex(node, k) == CHOOSE i \in DOMAIN node : node[i].key = k
Get(node, k) == node[KeyIndex(node, k)].val

\* node[k] = v
SetKey(node, k, v) ==
    IF HasKey(node, k)
    THEN [node EXCEPT ![KeyIndex(node, k)] = [key |-> k, val |-> v]]
    ELSE Append(node, [key |-> k, val |-> v])

---------------------------------------------------------------------------
(* The extractors (lines 359-405). *)

Element(n, f, p, l) == [name |-> n, file |-> f, params |-> p, language |-> l]
ClassElement(n, f, i, l) == [name |-> n, file |-> f, inheritance |-> i, language |-> l]

IsPrivateAnyUnderscore(id) == id.us >= 1

\* line 384: func_name.startswith('_') and not func_name.startswith('__')
IsPrivate(id) == id.us >= 1 /\ ~(id.us >= 2)

\* lines 378-392
PythonFunctions(content, path) ==
    LET defs == SelectSeq(content, LAMBDA t : t.kw = "def" /\ ~IsPrivate(t.name))
    IN  [i \in 1..Len(defs) |-> Element(defs[i].name, path, defs[i].args, "Python")]

\* lines 395-405
PythonClasses(content, path) ==
    LET cls == SelectSeq(content, LAMBDA t : t.kw = "class")
    IN  [i \in 1..Len(cls) |-> ClassElement(cls[i].name, path, cls[i].args, "Python")]

\* An optional clause of a declaration: the group of the match is None, or its text.
NoClause == [present |-> FALSE, text |-> ""]
Clause(t) == [present |-> TRUE, text |-> t]

\* match.group(2) if match.group(2) else ""
GroupOrEmpty(clause) == IF clause.present THEN clause.text ELSE ""

\* lines 410-427: function declarations, then named arrow functions
JsFunctions(content, path) ==
    LET decls == SelectSeq(content, LAMBDA t : t.kw = "function")
        arrows == SelectSeq(content, LAMBDA t : t.kw = "arrow")
    IN  [i \in 1..Len(decls) |-> Element(decls[i].name, path, decls[i].args, "JavaScript")]
        \o [i \in 1..Len(arrows) |-> Element(arrows[i].name, path, "arrow function", "JavaScript")]

\* lines 430-437: group 2 is the name after extends
JsClasses(content, path) ==
    LET cls == SelectSeq(content, LAMBDA t : t.kw = "class")
    IN  [i \in 1..Len(cls) |->
            ClassElement(cls[i].name, path, GroupOrEmpty(cls[i].extends), "JavaScript")]

\* lines 442-452: group 2 is the name after extends; group 3, the text after
\* implements, is not used
JavaClasses(content, path) ==
    LET cls == SelectSeq(content, LAMBDA t : t.kw = "class")
    IN  [i \in 1..Len(cls) |->
            ClassElement(cls[i].name, path, GroupOrEmpty(cls[i].extends), "Java")]

\* lines 455-465
JavaFunctions(content, path) ==
    LET ms == SelectSeq(content, LAMBDA t : t.kw = "method")
    IN  [i \in 1..Len(ms) |-> Element(ms[i].name, path, ms[i].args, "Java")]

\* lines 470-480: group 2 is the text after the colon that follows the name and its
\* type parameters; a primary constructor between them leaves the group None
KotlinClasses(content, path) ==
    LET cls == SelectSeq(content, LAMBDA t : t.kw = "class")
    IN  [i \in 1..Len(cls) |->
            ClassElement(cls[i].name, path,
                         IF cls[i].ctor THEN "" ELSE GroupOrEmpty(cls[i].supers), "Kotlin")]

\* the name of an extension function: f"{receiver_type}.{func_name}"
Qualified(receiver_type, id) == [receiver |-> receiver_type, name |-> id]

\* The receiver type of a function declaration, and what its text is made of: one
\* identifier (String), characters of [a-zA-Z0-9_<>., ] (List<Int>, java.io.File),
\* or other characters as well (String?).
Receiver(shape, t) == [present |-> TRUE, text |-> t, shape |-> shape]

\* line 483: after 'fun' the pattern takes at most one identifier and a dot before
\* the name
PlainPatternMatches(t) ==
    t.kw = "fun" /\ (t.receiver.present => t.receiver.shape = "identifier")

\* line 499: the receiver is a run of [a-zA-Z0-9_<>., ] before the last dot
ExtensionPatternMatches(t) ==
    t.kw = "fun" /\ t.receiver.present /\ t.receiver.shape \in {"identifier", "typed"}

\* lines 483-511: the functions the first pattern matches, private ones left out,
\* then the functions the pattern of extension functions matches
KotlinFunctions(content, path) ==
    LET funs == SelectSeq(content, LAMBDA t : PlainPatternMatches(t) /\ ~IsPrivate(t.name))
        exts == SelectSeq(content, LAMBDA t : ExtensionPatternMatches(t))
    IN  [i \in 1..Len(funs) |-> Element(funs[i].name, path, funs[i].args, "Kotlin")]
        \o [i \in 1..Len(exts) |->
               Element(Qualified(exts[i].receiver.text, exts[i].name), path, exts[i].args,
                       "Kotlin (Extension)")]

AppendedInFront(list, found) == found \o list

\* self.functions.append / self.classes.append in the loops of a matcher (lines
\* 387, 400, ..., 506): the elements found are added at the end, in the order found
Appended(list, found) == list \o found

MatcherCAsPython(ext) ==
    CASE ext \in {"py", "c"} -> "python"
      [] ext \in {"js", "jsx", "ts", "tsx"} -> "js"
      [] ext \in {"java"} -> "java"
      [] ext \in {"kt", "kts"} -> "kotlin"
      [] OTHER -> "none"

\* lines 363-370: the matcher of an extension, "none" when the chain of tests ends
Matcher(ext) ==
    CASE ext = "py" -> "python"
      [] ext \in {"js", "jsx", "ts", "tsx"} -> "js"
      [] ext \in {"java"} -> "java"
      [] ext \in {"kt", "kts"} -> "kotlin"
      [] OTHER -> "none"

\* What a matcher appends to self.functions and self.classes.
Extract(m, content, path) ==
    CASE m = "python" -> [functions |-> PythonFunctions(content, path),
                          classes |-> PythonClasses(content, path)]
      [] m = "js" -> [functions |-> JsFunctions(content, path),
                      classes |-> JsClasses(content, path)]
      [] m = "java" -> [functions |-> JavaFunctions(content, path),
                        classes |-> JavaClasses(content, path)]
      [] m = "kotlin" -> [functions |-> KotlinFunctions(content, path),
                          classes |-> KotlinClasses(content, path)]
      [] m = "none" -> [functions |-> <<>>, classes |-> <<>>]

---------------------------------------------------------------------------
(* extract_features (lines 514-556).  Texts are tuples of characters.      *)

\* The characters of the name segments that occur.
Spell(seg) ==
    CASE seg = "" -> <<>>
      [] seg = "git" -> <<"g", "i", "t">>
      [] seg = "node_modules" -> <<"n", "o", "d", "e", "_", "m", "o", "d", "u", "l", "e", "s">>
      [] seg = "__pycache__" -> <<"_", "_", "p", "y", "c", "a", "c", "h", "e", "_", "_">>
      [] seg = "env" -> <<"e", "n", "v">>
      [] seg = "src" -> <<"s", "r", "c">>
      [] seg = "__files" -> <<"_", "_", "f", "i", "l", "e", "s">>
      [] seg = "main" -> <<"m", "a", "i", "n">>
      [] seg = "py" -> <<"p", "y">>
      [] seg = "big" -> <<"b", "i", "g">>
      [] seg = "gen" -> <<"g", "e", "n">>
      [] seg = "lib" -> <<"l", "i", "b">>
      [] seg = "C" -> <<"C">>
      [] seg = "notes" -> <<"n", "o", "t", "e", "s">>
      [] seg = "txt" -> <<"t", "x", "t">>
      [] seg = "Dockerfile" -> <<"D", "o", "c", "k", "e", "r", "f", "i", "l", "e">>
      [] seg = "App" -> <<"A", "p", "p">>
      [] seg = "PY" -> <<"P", "Y">>
      [] seg = "x" -> <<"x">>
      [] seg = "tsx" -> <<"t", "s", "x">>
      [] seg = "pages" -> <<"p", "a", "g", "e", "s">>

\* the text of a name: its segments joined by dots
RECURSIVE NameText(_)
NameText(name) ==
    IF Len(name) = 1
    THEN Spell(name[1])
    ELSE Spell(name[1]) \o <<".">> \o NameText(Tail(name))

\* repr of a str
Repr(name) == <<"'">> \o NameText(name) \o <<"'">>

\* repr of a list of names
RECURSIVE ListItems(_)
ListItems(l) ==
    IF l = <<>> THEN <<>>
    ELSE IF Len(l) = 1 THEN Repr(l[1])
    ELSE Repr(l[1]) \o <<",", " ">> \o ListItems(Tail(l))

\* line 547: str(self.repo_structure), the repr of the nested dict
RECURSIVE Str(_)
RECURSIVE DictItems(_)
DictItems(node) ==
    IF node = <<>> THEN <<>>
    ELSE LET e == Head(node)
             v == IF e.val.isList
                  THEN <<"[">> \o ListItems(e.val.list) \o <<"]">>
                  ELSE Str(e.val.sub)
             first == Repr(e.key) \o <<":", " ">> \o v
         IN  IF Len(node) = 1 THEN first ELSE first \o <<",", " ">> \o DictItems(Tail(node))

Str(node) == <<"{">> \o DictItems(node) \o <<"}">>

UpperCase == <<"A", "B", "C", "D", "E", "F", "G", "H", "I", "J", "K", "L", "M", "N", "O", "P", "Q", "R", "S", "T", "U", "V", "W", "X", "Y", "Z">>
LowerCase == <<"a", "b", "c", "d", "e", "f", "g", "h", "i", "j", "k", "l", "m", "n", "o", "p", "q", "r", "s", "t", "u", "v", "w", "x", "y", "z">>

\* str.lower(), character by character
LowerChar(c) ==
    IF \E i \in DOMAIN UpperCase : UpperCase[i] = c
    THEN LowerCase[CHOOSE i \in DOMAIN UpperCase : UpperCase[i] = c]
    ELSE c

LowerText(t) == [i \in DOMAIN t |-> LowerChar(t[i])]

\* the operator in of two str
IsSubstring(sub, text) ==
    \E k \in 0..(Len(text) - Len(sub)) : \A i \in 1..Len(sub) : text[k + i] = sub[i]

\* lines 529-544: the frameworks and their indicators, in the order of the dict
Frameworks ==
    << [name |-> "Django",
        indicators |-> << <<"d", "j", "a", "n", "g", "o">>,
                          <<"s", "e", "t", "t", "i", "n", "g", "s", ".", "p", "y">>,
                          <<"w", "s", "g", "i", ".", "p", "y">> >>],
       [name |-> "Flask",
        indicators |-> << <<"a", "p", "p", ".", "p", "y">>,
                          <<"f", "l", "a", "s", "k">>,
                          <<"r", "o", "u", "t", "e", "s", ".", "p", "y">> >>],
       [name |-> "React",
        indicators |-> << <<"r", "e", "a", "c", "t">>,
                          <<"j", "s", "x">>,
                          <<"c", "o", "m", "p", "o", "n", "e", "n", "t", "s">> >>],
       [name |-> "Angular",
        indicators |-> << <<"a", "n", "g", "u", "l", "a", "r", ".", "j", "s", "o", "n">>,
                          <<"c", "o", "m", "p", "o", "n", "e", "n", "t", ".", "t", "s">> >>],
       [name |-> "Vue.js",
        indicators |-> << <<"v", "u", "e", ".", "c", "o", "n", "f", "i", "g", ".", "j", "s">>,
                          <<".", "v", "u", "e">> >>],
       [name |-> "Express.js",
        indicators |-> << <<"e", "x", "p", "r", "e", "s", "s">>,
                          <<"r", "o", "u", "t", "e", "s">>,
                          <<"a", "p", "p", ".", "j", "s">> >>],
       [name |-> "Spring Boot",
        indicators |-> << <<"a", "p", "p", "l", "i", "c", "a", "t", "i", "o", "n", ".", "p", "r", "o", "p", "e", "r", "t", "i", "e", "s">>,
                          <<"S", "p", "r", "i", "n", "g", "A", "p", "p", "l", "i", "c", "a", "t", "i", "o", "n">> >>],
       [name |-> "Docker",
        indicators |-> << <<"D", "o", "c", "k", "e", "r", "f", "i", "l", "e">>,
                          <<"d", "o", "c", "k", "e", "r", "-", "c", "o", "m", "p", "o", "s", "e", ".", "y", "m", "l">> >>],
       [name |-> "Kubernetes",
        indicators |-> << <<"k", "8", "s">>,
                          <<"d", "e", "p", "l", "o", "y", "m", "e", "n", "t", ".", "y", "a", "m", "l">> >>],
       [name |-> "Next.js",
        indicators |-> << <<"n", "e", "x", "t", ".", "c", "o", "n", "f", "i", "g", ".", "j", "s">>,
                          <<"p", "a", "g", "e", "s">> >>],
       [name |-> "GraphQL",
        indicators |-> << <<"g", "r", "a", "p", "h", "q", "l">>,
                          <<"s", "c", "h", "e", "m", "a", ".", "g", "r", "a", "p", "h", "q", "l">> >>],
       [name |-> "TypeScript",
        indicators |-> << <<"t", "s", "c", "o", "n", "f", "i", "g", ".", "j", "s", "o", "n">>,
                          <<".", "t", "s">> >>],
       [name |-> "Jest",
        indicators |-> << <<"j", "e", "s", "t", ".", "c", "o", "n", "f", "i", "g", ".", "j", "s">>,
                          <<"t", "e", "s", "t", ".", "j", "s">> >>],
       [name |-> "Pytest",
        indicators |-> << <<"p", "y", "t", "e", "s", "t", ".", "i", "n", "i">>,
                          <<"t", "e", "s", "t", "_">> >>] >>

\* lines 524-525: the keys of a dict, in insertion order
Keys(dict) == [i \in DOMAIN dict |-> dict[i].key]

IndicatorFoundCaseSensitive(indicator, structure_str) == IsSubstring(indicator, structure_str)

\* line 551
IndicatorFound(indicator, structure_str) ==
    IsSubstring(LowerText(indicator), LowerText(structure_str))

\* lines 528-553: the frameworks appended, in the order of the table
DetectedFrameworks(structure) ==
    IF structure # EmptyNode
    THEN LET structure_str == Str(structure)
             found == SelectSeq(Frameworks,
                                LAMBDA f : \E i \in DOMAIN f.indicators :
                                               IndicatorFound(f.indicators[i], structure_str))
         IN  [i \in DOMAIN found |-> found[i].name]
    ELSE <<>>

\* lines 521-553: the list features before duplicates are removed
FeatureList(stats, structure) == Keys(stats) \o DetectedFrameworks(structure)

Range(seq) == {seq[i] : i \in DOMAIN seq}

\* line 556: list(set(features)), in one of the orders a set may be listed in
ExtractFeatures(stats, structure) ==
    LET S == Range(FeatureList(stats, structure))
    IN  {l \in [1..Cardinality(S) -> S] : Range(l) = S}

---------------------------------------------------------------------------
(* Requests and the upstream's answers. *)

NoParams == "None"

\* line 302: the listing URL of a path
ContentsUrl(path) == [endpoint |-> "contents", path |-> path]

\* line 350: the download_url of an entry
DownloadUrl(path) == [endpoint |-> "raw", path |-> path]

Request(u, p) == [url |-> u, params |-> p]
NoRequest == Request([endpoint |-> "none", path |-> <<>>], NoParams)

Header(k, n) == [kind |-> k, v |-> n]
Missing == Header("missing", 0)
Malformed == Header("bad", 0)

RemainingValues == {Missing, Malformed, Header("int", 0), Header("int", 1)}
ResetValues == {Missing, Malformed} \cup {Header("int", t) : t \in 0..MaxTime}

Body(k, n) == [kind |-> k, len |-> n]
None == Body("none", 0)

Response(st, rem, rst, b) == [ok |-> TRUE, status |-> st, remaining |-> rem, reset |-> rst, body |-> b]

\* requests.get raises a RequestException: no response
NetworkError == [ok |-> FALSE, status |-> 0, remaining |-> Missing, reset |-> Missing, body |-> None]

\* The JSON bodies of a 200: a listing of n entries, an object, text that is no JSON.
Bodies(room) == {Body("list", n) : n \in 0..room} \cup {Body("dict", 0), Body("badjson", 0)}

ApiResponses(room) ==
    {NetworkError}
    \cup {Response(200, rem, Missing, b) : rem \in RemainingValues, b \in Bodies(room)}
    \cup {Response(403, rem, rst, None) : rem \in RemainingValues, rst \in ResetValues}
    \cup {Response(404, rem, Missing, None) : rem \in RemainingValues}

\* int(response.headers.get(name, 0)) raises ValueError on text that is no number
HeaderOk(h) == h.kind # "bad"

HeaderIntDefaultOne(h) == IF h.kind = "int" THEN h.v ELSE 1

\* int(response.headers.get(name, 0))
HeaderInt(h) == IF h.kind = "int" THEN h.v ELSE 0

Max(a, b) == IF a >= b THEN a ELSE b

IsThrottledAny403(status, remaining) == status = 403

\* line 73
IsThrottled(status, remaining) == status = 403 /\ remaining = 0

SleepTimeNoMargin(reset, t) == Max(0, reset - t)

\* line 75
SleepTime(reset, t) == Max(0, reset - t) + 1

IsErrorStatusServerOnly(status) == status >= 500

IsErrorStatusBut403(status) == status >= 400 /\ status # 403

\* line 80: response.raise_for_status()
IsErrorStatus(status) == status >= 400

\* lines 80-84: the value of a call that ends with response r; None on an error
\* status and on a body that is no JSON (requests raises its JSONDecodeError,
\* a RequestException)
ReturnValue(r) ==
    IF ~r.ok \/ IsErrorStatus(r.status) \/ r.body.kind = "badjson" THEN None ELSE r.body

RetryRoot(r) == Request(ContentsUrl(<<>>), r.params)

\* line 78: the request of the recursive call
Retry(r) == Request(r.url, r.params)

---------------------------------------------------------------------------
(* __init__ (lines 19-53). *)

\* The characters of the path of a repository URL.
Chars == {"/", "o", "r"}

\* str.strip('/'), one end at a time
RECURSIVE StripLeft(_)
StripLeft(s) == IF s # <<>> /\ Head(s) = "/" THEN StripLeft(Tail(s)) ELSE s

RECURSIVE StripRight(_)
StripRight(s) ==
    IF s # <<>> /\ s[Len(s)] = "/" THEN StripRight(SubSeq(s, 1, Len(s) - 1)) ELSE s

StripNone(s) == s

\* line 32: parsed_url.path.strip('/')
Strip(s) == StripRight(StripLeft(s))

\* line 32: str.split('/'): the texts between the separators, empty ones kept;
\* one empty text for the empty string
RECURSIVE Split(_)
Split(s) ==
    IF \A i \in DOMAIN s : s[i] # "/"
    THEN <<s>>
    ELSE LET i == CHOOSE k \in DOMAIN s : s[k] = "/" /\ \A j \in 1..(k - 1) : s[j] # "/"
         IN  <<SubSeq(s, 1, i - 1)>> \o Split(SubSeq(s, i + 1, Len(s)))

\* line 32
PathParts(url) == Split(Strip(url))

\* the path of https://github.com/o/r
ValidUrl == <<"/", "o", "/", "r">>

\* {} as the value of a field that holds a JSON object
EmptyDict == <<>>

\* no call of analyze has returned
NoResult == [kind |-> "none"]

---------------------------------------------------------------------------
(* The state after construction (lines 45-53). *)

\* A call of fetch_directory_contents: its path, the entries of its listing still to
\* read, the names of the entries read, and its local result.
Frame(p) == [path |-> p, todo |-> 0, seen |-> {}, result |-> EmptyNode]
NoFile == [name |-> <<>>, path |-> <<>>]

Init ==
    /\ pc = "idle"
    /\ stack = <<>>
    /\ req = NoRequest
    /\ now = 0
    /\ reset_time = 0
    /\ wakeAt = 0
    /\ rate_limit_remaining = 0
    /\ file_count = 0
    /\ functions = <<>>
    /\ classes = <<>>
    /\ returned = EmptyNode
    /\ exc = "none"
    /\ file_info = NoFile
    /\ served = 0
    /\ issued = 0
    /\ throttles = 0
    /\ repo_url = ValidUrl
    /\ owner = <<"o">>
    /\ repo_name = <<"r">>
    /\ repo_info = EmptyDict
    /\ language_stats = EmptyDict
    /\ readme_content = ""
    /\ repo_structure = EmptyNode
    /\ stage = "none"
    /\ features = <<>>
    /\ result = NoResult
    /\ runs = 0
    /\ feature_runs = 0
    /\ source = <<>>

---------------------------------------------------------------------------
(* fetch_directory_contents (lines 292-325). *)

AfterReturnNoStore(stk, node) ==
    IF Len(stk) = 1
    THEN [pc |-> "done", stack |-> <<>>, returned |-> node]
    ELSE [pc |-> "loop", stack |-> SubSeq(stk, 1, Len(stk) - 1), returned |-> returned]

\* lines 314 and 325: the top frame returns node, to the frame that called it or
\* to the caller of the root call
AfterReturn(stk, node) ==
    IF Len(stk) = 1
    THEN [pc |-> "done", stack |-> <<>>, returned |-> node]
    ELSE [pc |-> "loop",
          stack |-> [SubSeq(stk, 1, Len(stk) - 1) EXCEPT ![Len(stk) - 1].result =
                        SetKey(@, Last(stk[Len(stk)].path), DictVal(node))],
          returned |-> returned]

\* lines 305-309: what the top frame does with the value of _make_api_request
AfterListing(stk, v) ==
    IF v.kind = "list" /\ v.len > 0
    THEN [pc |-> "loop", stack |-> [stk EXCEPT ![Len(stk)].todo = v.len], returned |-> returned]
    ELSE AfterReturn(stk, EmptyNode)

\* lines 322, 347-352: the entries whose content _analyze_file_content requests
WantsDownload(item) ==
    IsCodeFile(item.name) /\ ~TooLarge(item.size) /\ item.download_url

\* the call fetch_directory_contents() of the root (lines 302-303)
CallFetchDirectoryContents ==
    /\ pc = "idle"
    /\ stack' = <<Frame(<<>>)>>
    /\ req' = Request(ContentsUrl(<<>>), NoParams)
    /\ pc' = "api_wait"
    /\ issued' = 1
    /\ throttles' = 0
    /\ UNCHANGED <<ctorVars, analyzeVars, source>>
    /\ UNCHANGED <<now, reset_time, wakeAt, rate_limit_remaining, file_count, functions,
                   classes, returned, exc, file_info, served>>

\* one iteration of the loop of line 309, on the next entry of the listing; the
\* entries of a listing are read once, in order, and drawn when they are read;
\* the names of a listing differ
ProcessEntry(item) ==
    /\ pc = "loop"
    /\ stack[Len(stack)].todo > 0
    /\ item.name \notin stack[Len(stack)].seen
    /\ LET top == stack[Len(stack)]
           rest == [top EXCEPT !.todo = @ - 1, !.seen = @ \cup {item.name}]
           path == Append(top.path, item.name)
           files == IF HasKey(top.result, FilesKey) THEN Get(top.result, FilesKey).list ELSE <<>>
       IN  IF Skipped(item.name)
           THEN /\ stack' = [stack EXCEPT ![Len(stack)] = rest]
                /\ UNCHANGED <<pc, req, file_count, file_info, exc, issued, throttles>>
           ELSE IF item.type = "dir"
           THEN /\ stack' = Append([stack EXCEPT ![Len(stack)] = rest], Frame(path))
                /\ req' = Request(ContentsUrl(path), NoParams)
                /\ pc' = "api_wait"
                /\ issued' = 1
                /\ throttles' = 0
                /\ UNCHANGED <<file_count, file_info, exc>>
           ELSE IF HasKey(top.result, FilesKey) /\ ~Get(top.result, FilesKey).isList
           THEN \* line 318: result['__files'] is the sub-tree of a directory, which has no append
                /\ pc' = "raised"
                /\ exc' = "AttributeError:318"
                /\ stack' = <<>>
                /\ UNCHANGED <<req, file_count, file_info, issued, throttles>>
           ELSE /\ stack' = [stack EXCEPT ![Len(stack)] =
                                [rest EXCEPT !.result =
                                    SetKey(top.result, FilesKey, ListVal(Append(files, item.name)))]]
                /\ file_count' = file_count + 1
                /\ IF WantsDownload(item)
                   THEN /\ pc' = "dl_wait"
                        /\ req' = Request(DownloadUrl(path), NoParams)
                        /\ file_info' = [name |-> item.name, path |-> path]
                   ELSE UNCHANGED <<pc, req, file_info>>
                /\ UNCHANGED <<exc, issued, throttles>>
    /\ UNCHANGED <<ctorVars, analyzeVars, source>>
    /\ UNCHANGED <<now, reset_time, wakeAt, rate_limit_remaining, functions, classes,
                   returned, served>>

\* line 325: the listing is exhausted
ReturnResult ==
    /\ pc = "loop"
    /\ stack[Len(stack)].todo = 0
    /\ LET a == AfterReturn(stack, stack[Len(stack)].result)
       IN  pc' = a.pc /\ stack' = a.stack /\ returned' = a.returned
    /\ UNCHANGED <<ctorVars, analyzeVars, source>>
    /\ UNCHANGED <<req, now, reset_time, wakeAt, rate_limit_remaining, file_count,
                   functions, classes, exc, file_info, served, issued, throttles>>

---------------------------------------------------------------------------
(* _analyze_file_content, from the answer to requests.get (lines 355-373). *)

\* The answers to requests.get(content_url): none, or a status, the header
\* X-RateLimit-Remaining and a text; an error answer has a text as well.
Download(ok, st, rem, t) == [ok |-> ok, status |-> st, remaining |-> rem, text |-> t]

ContentResponses ==
    {Download(FALSE, 0, Missing, <<>>)}
    \cup {Download(TRUE, 200, rem, c) : rem \in {Missing, Header("int", 1)}, c \in Contents}
    \cup {Download(TRUE, 403, Header("int", 0), c) : c \in Contents}
    \cup {Download(TRUE, 404, Missing, c) : c \in Contents}

ContentResponse(r) ==
    /\ pc = "dl_wait"
    /\ LET got == IF r.ok /\ ~IsErrorStatus(r.status)
                  THEN Extract(Matcher(SplitExt(file_info.name)), r.text, file_info.path)
                  ELSE [functions |-> <<>>, classes |-> <<>>]
       IN  /\ functions' = Appended(functions, got.functions)
           /\ classes' = Appended(classes, got.classes)
    /\ pc' = "loop"
    /\ req' = NoRequest
    /\ file_info' = NoFile
    /\ UNCHANGED <<ctorVars, analyzeVars, source>>
    /\ UNCHANGED <<stack, now, reset_time, wakeAt, rate_limit_remaining, file_count,
                   returned, exc, served, issued, throttles>>

---------------------------------------------------------------------------
(* _make_api_request, from the answer to requests.get (lines 67-84). *)

ApiResponse(r) ==
    /\ pc = "api_wait"
    /\ IF r.ok /\ ~HeaderOk(r.remaining)
       THEN \* line 70 raises ValueError, which line 82 does not catch
            /\ pc' = "raised"
            /\ exc' = "ValueError:70"
            /\ stack' = <<>>
            /\ req' = NoRequest
            /\ UNCHANGED <<rate_limit_remaining, reset_time, wakeAt, returned, served, throttles>>
       ELSE IF r.ok /\ IsThrottled(r.status, HeaderInt(r.remaining))
       THEN /\ rate_limit_remaining' = HeaderInt(r.remaining)
            /\ throttles' = throttles + 1
            /\ IF HeaderOk(r.reset)
               THEN /\ now + SleepTime(HeaderInt(r.reset), now) <= MaxTime
                    /\ pc' = "sleeping"
                    /\ reset_time' = HeaderInt(r.reset)
                    /\ wakeAt' = now + SleepTime(HeaderInt(r.reset), now)
                    /\ UNCHANGED <<stack, req, exc>>
               ELSE \* line 74 raises ValueError
                    /\ pc' = "raised"
                    /\ exc' = "ValueError:74"
                    /\ stack' = <<>>
                    /\ req' = NoRequest
                    /\ UNCHANGED <<reset_time, wakeAt>>
            /\ UNCHANGED <<returned, served>>
       ELSE /\ rate_limit_remaining' = IF r.ok THEN HeaderInt(r.remaining) ELSE rate_limit_remaining
            /\ LET a == AfterListing(stack, ReturnValue(r))
               IN  pc' = a.pc /\ stack' = a.stack /\ returned' = a.returned
            /\ served' = served + ReturnValue(r).len
            /\ req' = NoRequest
            /\ UNCHANGED <<reset_time, wakeAt, exc, throttles>>
    /\ UNCHANGED <<ctorVars, analyzeVars, source>>
    /\ UNCHANGED <<now, file_count, functions, classes, file_info, issued>>

\* lines 77-78: time.sleep ends, no earlier than asked, and the request is issued again
Wake(t) ==
    /\ pc = "sleeping"
    /\ t >= wakeAt
    /\ now' = t
    /\ reset_time' = 0
    /\ wakeAt' = 0
    /\ req' = Retry(req)
    /\ pc' = "api_wait"
    /\ issued' = issued + 1
    /\ UNCHANGED <<ctorVars, analyzeVars, source>>
    /\ UNCHANGED <<stack, rate_limit_remaining, file_count, functions, classes, returned,
                   exc, file_info, served, throttles>>

---------------------------------------------------------------------------

Next ==
    \/ CallFetchDirectoryContents
    \/ \E item \in Items : ProcessEntry(item)
    \/ ReturnResult
    \/ \E r \in ContentResponses : ContentResponse(r)
    \/ \E r \in ApiResponses(MaxEntries - served) : ApiResponse(r)
    \/ \E t \in 0..MaxTime : Wake(t)

Spec == Init /\ [][Next]_vars

---------------------------------------------------------------------------
(* analyze (lines 558-598) with fetch_repo_info, fetch_languages and       *)
(* fetch_readme (lines 86-129).                                            *)

\* lines 94, 106, 118: the URL of an endpoint of the repository
RepoUrl(endpoint) == [endpoint |-> endpoint, path |-> <<>>]

\* A JSON value: an object is the tuple of its items, a list the tuple of its
\* elements.
Json(v) == [kind |-> "json", len |-> 0, value |-> v]
Item(k, v) == [key |-> k, val |-> v]
ListOf(n) == [i \in 1..n |-> [elem |-> i]]
IsDict(v) == \A i \in DOMAIN v : "key" \in DOMAIN v[i]

\* base64 text: what it decodes to, if it decodes
Base64(ok, text) == [valid |-> ok, decoded |-> text]

\* lines 95, 107: self._make_api_request(api_url) or {}
OrEmpty(v) == IF v.kind = "json" THEN v.value ELSE EmptyDict

\* lines 121-127: the text fetch_readme stores, the old one when it stores none
DecodedReadme(v, old) ==
    LET readme_data == OrEmpty(v)
    IN  IF readme_data # <<>> /\ IsDict(readme_data) /\ HasKey(readme_data, "content")
           /\ Get(readme_data, "content").valid
        THEN Get(readme_data, "content").decoded
        ELSE old

\* the stage of analyze that follows a fetch
NextStage(st) ==
    CASE st = "repo_info" -> "languages"
      [] st = "languages" -> "readme"
      [] st = "readme" -> "walk"

\* analyze(): lines 565-569 and 94-95, up to the request of fetch_repo_info
CallAnalyze ==
    /\ pc = "idle"
    /\ runs < MaxRuns
    /\ runs' = runs + 1
    /\ feature_runs' = 0
    /\ features' = <<>>
    /\ stage' = "repo_info"
    /\ req' = Request(RepoUrl("repo_info"), NoParams)
    /\ pc' = "stage_wait"
    /\ issued' = 1
    /\ throttles' = 0
    /\ UNCHANGED <<stack, now, reset_time, wakeAt, rate_limit_remaining, file_count, functions,
                   classes, returned, exc, file_info, served, ctorVars, repo_info,
                   language_stats, readme_content, repo_structure, result, source>>

\* _make_api_request called by fetch_repo_info, fetch_languages or fetch_readme,
\* from the answer to requests.get (lines 67-84), and the caller up to its next
\* request: lines 95-96 and 572, 107-108 and 575, 119-129 and 578-579 with 302-303
StageResponse(r) ==
    /\ pc = "stage_wait"
    /\ IF r.ok /\ ~HeaderOk(r.remaining)
       THEN \* line 70 raises ValueError, which line 82 does not catch
            /\ pc' = "raised"
            /\ exc' = "ValueError:70"
            /\ req' = NoRequest
            /\ UNCHANGED <<rate_limit_remaining, reset_time, wakeAt, throttles, issued, stack,
                           stage, repo_info, language_stats, readme_content>>
       ELSE IF r.ok /\ IsThrottled(r.status, HeaderInt(r.remaining))
       THEN /\ rate_limit_remaining' = HeaderInt(r.remaining)
            /\ throttles' = throttles + 1
            /\ IF HeaderOk(r.reset)
               THEN /\ now + SleepTime(HeaderInt(r.reset), now) <= MaxTime
                    /\ pc' = "stage_sleeping"
                    /\ reset_time' = HeaderInt(r.reset)
                    /\ wakeAt' = now + SleepTime(HeaderInt(r.reset), now)
                    /\ UNCHANGED <<req, exc>>
               ELSE \* line 74 raises ValueError
                    /\ pc' = "raised"
                    /\ exc' = "ValueError:74"
                    /\ req' = NoRequest
                    /\ UNCHANGED <<reset_time, wakeAt>>
            /\ UNCHANGED <<issued, stack, stage, repo_info, language_stats, readme_content>>
       ELSE /\ rate_limit_remaining' = IF r.ok THEN HeaderInt(r.remaining) ELSE rate_limit_remaining
            /\ repo_info' = IF stage = "repo_info" THEN OrEmpty(ReturnValue(r)) ELSE repo_info
            /\ language_stats' =
                  IF stage = "languages" THEN OrEmpty(ReturnValue(r)) ELSE language_stats
            /\ readme_content' =
                  IF stage = "readme" THEN DecodedReadme(ReturnValue(r), readme_content)
                  ELSE readme_content
            /\ stage' = NextStage(stage)
            /\ IF stage = "readme"
               THEN /\ stack' = <<Frame(<<>>)>>
                    /\ req' = Request(ContentsUrl(<<>>), NoParams)
                    /\ pc' = "api_wait"
               ELSE /\ req' = Request(RepoUrl(NextStage(stage)), NoParams)
                    /\ pc' = "stage_wait"
                    /\ UNCHANGED stack
            /\ issued' = 1
            /\ throttles' = 0
            /\ UNCHANGED <<reset_time, wakeAt, exc>>
    /\ UNCHANGED <<now, file_count, functions, classes, returned, file_info, served, ctorVars,
                   repo_structure, features, result, runs, feature_runs, source>>

\* lines 77-78, in a call by a fetch_* method
StageWake(t) ==
    /\ pc = "stage_sleeping"
    /\ t >= wakeAt
    /\ now' = t
    /\ reset_time' = 0
    /\ wakeAt' = 0
    /\ req' = Retry(req)
    /\ pc' = "stage_wait"
    /\ issued' = issued + 1
    /\ UNCHANGED <<stack, rate_limit_remaining, file_count, functions, classes, returned,
                   exc, file_info, served, throttles, ctorVars, analyzeVars, source>>

\* lines 584-594: the record analyze returns
AnalysisRecord(feats) ==
    [kind |-> "dict", repo_info |-> repo_info, language_stats |-> language_stats,
     readme_content |-> readme_content, repo_structure |-> returned, functions |-> functions,
     classes |-> classes, features |-> feats, file_count |-> file_count,
     has_original_readme |-> readme_content # ""]

\* lines 579-594, from the return of the root call of fetch_directory_contents:
\* extract_features runs, and raises AttributeError at line 524 when language_stats
\* has no keys()
FinishAnalyze ==
    /\ pc = "done"
    /\ stage = "walk"
    /\ repo_structure' = returned
    /\ feature_runs' = feature_runs + 1
    /\ IF IsDict(language_stats)
       THEN /\ features' \in ExtractFeatures(language_stats, returned)
            /\ result' = AnalysisRecord(features')
            /\ pc' = "idle"
            /\ stage' = "none"
            /\ exc' = exc
       ELSE /\ pc' = "raised"
            /\ exc' = "AttributeError:524"
            /\ UNCHANGED <<features, result, stage>>
    /\ UNCHANGED <<stack, req, now, reset_time, wakeAt, rate_limit_remaining, file_count,
                   functions, classes, returned, file_info, served, issued, throttles, ctorVars,
                   repo_info, language_stats, readme_content, runs, source>>

\* lines 596-598: an exception of any stage ends analyze, which returns None
ExceptAnalyze ==
    /\ pc = "raised"
    /\ stage # "none"
    /\ result' = [kind |-> "None"]
    /\ pc' = "idle"
    /\ stage' = "none"
    /\ exc' = "none"
    /\ stack' = <<>>
    /\ UNCHANGED <<req, now, reset_time, wakeAt, rate_limit_remaining, file_count, functions,
                   classes, returned, file_info, served, issued, throttles, ctorVars, repo_info,
                   language_stats, readme_content, repo_structure, features, runs,
                   feature_runs, source>>

\* The answers to the request of a stage.  Each stage may get a header that is no
\* number and its JSON bodies; the first may be throttled, the last may fail.
StageBodies(st) ==
    CASE st = "repo_info" -> {Json(<<Item("name", "r")>>)}
      [] st = "languages" -> {Json(<<Item("Python", 1)>>), Json(ListOf(1))}
      [] st = "readme" -> {Json(<<Item("content", Base64(TRUE, "# r"))>>),
                           Json(<<Item("content", Base64(FALSE, ""))>>),
                           Json(<<Item("name", "README.md")>>)}
      [] OTHER -> {}

StageResponses(st) ==
    {Response(200, Malformed, Missing, Json(<<>>))}
    \cup {Response(200, Header("int", 1), Missing, b) : b \in StageBodies(st)}
    \cup (IF st = "repo_info" THEN {Response(403, Header("int", 0), Missing, None)} ELSE {})
    \cup (IF st = "readme" THEN {NetworkError, Response(404, Header("int", 1), Missing, None),
                                 Response(404, Malformed, Missing, None)}
          ELSE {})

\* The entries and answers of the walk of an analysis: listings of one entry at most.
AnalyzeItems ==
    { Entry(<<"src">>, "dir", 0, FALSE),
      Entry(<<"main", "py">>, "file", 10, TRUE) }

WalkResponses(room) ==
    {Response(200, Malformed, Missing, Body("list", 0))}
    \cup {Response(200, Header("int", 1), Missing, Body("list", n)) : n \in 0..(IF room > 0 THEN 1 ELSE 0)}

WalkContentResponses ==
    {[ok |-> FALSE, status |-> 0, text |-> <<>>], [ok |-> TRUE, status |-> 200, text |-> PySource]}

InitAnalyze == Init

NextAnalyze ==
    \/ CallAnalyze
    \/ \E r \in StageResponses(stage) : StageResponse(r)
    \/ \E t \in 0..MaxTime : StageWake(t)
    \/ \E r \in WalkResponses(MaxEntries - served) : ApiResponse(r)
    \/ \E item \in AnalyzeItems : ProcessEntry(item)
    \/ \E r \in WalkContentResponses : ContentResponse(r)
    \/ ReturnResult
    \/ FinishAnalyze
    \/ ExceptAnalyze

SpecAnalyze == InitAnalyze /\ [][NextAnalyze]_vars

---------------------------------------------------------------------------
(* Construction, then a first fetch. *)

\* The URL paths an analyzer is constructed with.
Urls == UNION {[1..n -> Chars] : n \in 0..MaxUrlLen}

InitNew ==
    /\ pc = "new"
    /\ repo_url \in Urls
    /\ owner = <<>>
    /\ repo_name = <<>>
    /\ stack = <<>>
    /\ req = NoRequest
    /\ now = 0
    /\ reset_time = 0
    /\ wakeAt = 0
    /\ rate_limit_remaining = 0
    /\ file_count = 0
    /\ functions = <<>>
    /\ classes = <<>>
    /\ returned = EmptyNode
    /\ exc = "none"
    /\ file_info = NoFile
    /\ served = 0
    /\ issued = 0
    /\ throttles = 0
    /\ repo_info = EmptyDict
    /\ language_stats = EmptyDict
    /\ readme_content = ""
    /\ repo_structure = EmptyNode
    /\ stage = "none"
    /\ features = <<>>
    /\ result = NoResult
    /\ runs = 0
    /\ feature_runs = 0
    /\ source = <<>>

\* GitHubAPIAnalyzer(repo_url): lines 31-53
Construct ==
    /\ pc = "new"
    /\ LET path_parts == PathParts(repo_url)
       IN  IF Len(path_parts) < 2
           THEN \* line 35
                /\ pc' = "raised"
                /\ exc' = "ValueError:35"
                /\ UNCHANGED <<owner, repo_name, repo_info, file_count, language_stats,
                               functions, classes, readme_content, repo_structure,
                               rate_limit_remaining>>
           ELSE /\ owner' = path_parts[1]
                /\ repo_name' = path_parts[2]
                /\ repo_info' = EmptyDict
                /\ file_count' = 0
                /\ language_stats' = EmptyDict
                /\ functions' = <<>>
                /\ classes' = <<>>
                /\ readme_content' = ""
                /\ repo_structure' = EmptyNode
                /\ rate_limit_remaining' = 0
                /\ pc' = "idle"
                /\ exc' = exc
    /\ UNCHANGED <<stack, req, now, reset_time, wakeAt, returned, file_info, served, issued,
                   throttles, repo_url, stage, features, result, runs, feature_runs, source>>

\* The answers to the first request: no response, an empty listing, not found.
FirstResponses ==
    {NetworkError,
     Response(200, Header("int", 1), Missing, Body("list", 0)),
     Response(404, Missing, Missing, None)}

NextNew ==
    \/ Construct
    \/ CallFetchDirectoryContents
    \/ \E r \in FirstResponses : ApiResponse(r)

SpecNew == InitNew /\ [][NextNew]_vars

---------------------------------------------------------------------------
(* extract_features, called on the fields of an analyzer. *)

Language(n) == [key |-> n, val |-> 1]

\* The values of language_stats: JSON objects from language to bytes of code.
LanguageDicts ==
    { <<>>,
      <<Language("Python")>>,
      <<Language("TypeScript")>>,
      <<Language("Python"), Language("JavaScript")>>,
      <<Language("JavaScript"), Language("TypeScript")>> }

FeatureFiles == { <<"Dockerfile">>, <<"App", "PY">>, <<"x", "tsx">>, <<"notes", "txt">> }
FeatureDirs == { <<"pages">>, <<"src">> }

\* the lists of n different file names at most
FileLists(n) ==
    UNION {{l \in [1..k -> FeatureFiles] : \A i, j \in 1..k : l[i] = l[j] => i = j} : k \in 1..n}

FilesNode(l) == <<[key |-> FilesKey, val |-> ListVal(l)]>>

\* The values of repo_structure: the trees a walk returns, with MaxListed file
\* names at most.
Structures ==
    {EmptyNode}
    \cup {FilesNode(l) : l \in FileLists(MaxListed)}
    \cup {<<[key |-> d, val |-> DictVal(sub)]>> :
             d \in FeatureDirs, sub \in {EmptyNode} \cup {FilesNode(l) : l \in FileLists(MaxListed - 1)}}
    \cup {FilesNode(l) \o <<[key |-> d, val |-> DictVal(sub)]>> :
             l \in FileLists(1), d \in FeatureDirs,
             sub \in {EmptyNode} \cup {FilesNode(m) : m \in FileLists(MaxListed - 1)}}

InitFeatures ==
    /\ pc = "idle"
    /\ language_stats \in LanguageDicts
    /\ repo_structure \in Structures
    /\ repo_url = ValidUrl
    /\ owner = <<"o">>
    /\ repo_name = <<"r">>
    /\ stack = <<>>
    /\ req = NoRequest
    /\ now = 0
    /\ reset_time = 0
    /\ wakeAt = 0
    /\ rate_limit_remaining = 0
    /\ file_count = 0
    /\ functions = <<>>
    /\ classes = <<>>
    /\ returned = EmptyNode
    /\ exc = "none"
    /\ file_info = NoFile
    /\ served = 0
    /\ issued = 0
    /\ throttles = 0
    /\ repo_info = EmptyDict
    /\ readme_content = ""
    /\ stage = "none"
    /\ features = <<>>
    /\ result = NoResult
    /\ runs = 0
    /\ feature_runs = 0
    /\ source = <<>>

\* extract_features()
CallExtractFeatures ==
    /\ pc = "idle"
    /\ feature_runs = 0
    /\ features' \in ExtractFeatures(language_stats, repo_structure)
    /\ feature_runs' = 1
    /\ UNCHANGED <<pc, stack, req, now, reset_time, wakeAt, rate_limit_remaining, file_count,
                   functions, classes, returned, exc, file_info, served, issued, throttles,
                   ctorVars, repo_info, language_stats, readme_content, repo_structure, stage,
                   result, runs, source>>

NextFeatures == CallExtractFeatures

SpecFeatures == InitFeatures /\ [][NextFeatures]_vars

---------------------------------------------------------------------------
(* The extractors, on a downloaded text (lines 357-370). *)

\* The declarations a matcher finds in a text, by language.
PyDecls ==
    { [kw |-> "def", name |-> Ident(0, "run"), args |-> "self, x"],
      [kw |-> "def", name |-> Ident(1, "helper"), args |-> ""],
      [kw |-> "def", name |-> Ident(2, "init__"), args |-> "self"],
      [kw |-> "class", name |-> Ident(0, "A"), args |-> "B"],
      [kw |-> "class", name |-> Ident(0, "C"), args |-> ""] }

JsDecls ==
    { [kw |-> "function", name |-> Ident(0, "run"), args |-> "a, b"],
      [kw |-> "arrow", name |-> Ident(0, "f"), args |-> "a"],
      [kw |-> "class", name |-> Ident(0, "A"), extends |-> NoClause],
      [kw |-> "class", name |-> Ident(0, "C"), extends |-> Clause("B")] }

JavaDecls ==
    { [kw |-> "class", name |-> Ident(0, "A"), extends |-> NoClause, implements |-> NoClause],
      [kw |-> "class", name |-> Ident(0, "C"), extends |-> Clause("B"), implements |-> NoClause],
      [kw |-> "class", name |-> Ident(0, "D"), extends |-> NoClause, implements |-> Clause("I")],
      [kw |-> "method", name |-> Ident(0, "run"), args |-> "int x"] }

KotlinDecls ==
    { [kw |-> "class", name |-> Ident(0, "A"), ctor |-> FALSE, supers |-> NoClause],
      [kw |-> "class", name |-> Ident(0, "C"), ctor |-> FALSE, supers |-> Clause("B")],
      [kw |-> "class", name |-> Ident(0, "D"), ctor |-> TRUE, supers |-> Clause("B")],
      [kw |-> "fun", name |-> Ident(0, "run"), args |-> "x: Int", receiver |-> NoClause],
      [kw |-> "fun", name |-> Ident(1, "helper"), args |-> "", receiver |-> NoClause],
      [kw |-> "fun", name |-> Ident(0, "shout"), args |-> "",
       receiver |-> Receiver("identifier", "String")],
      [kw |-> "fun", name |-> Ident(0, "second"), args |-> "",
       receiver |-> Receiver("typed", "List<Int>")],
      [kw |-> "fun", name |-> Ident(0, "orEmpty"), args |-> "",
       receiver |-> Receiver("other", "String?")] }

\* the texts of MaxDecls declarations at most
Sources(decls) == UNION {[1..n -> decls] : n \in 0..MaxDecls}

\* The files whose text is analyzed, and the texts of each.
SourceFiles ==
    { [name |-> <<"main", "py">>, texts |-> Sources(PyDecls)],
      [name |-> <<"app", "js">>, texts |-> Sources(JsDecls)],
      [name |-> <<"App", "java">>, texts |-> Sources(JavaDecls)],
      [name |-> <<"App", "kt">>, texts |-> Sources(KotlinDecls)] }

InitExtract ==
    /\ pc = "content"
    /\ \E f \in SourceFiles :
          /\ file_info = [name |-> f.name, path |-> <<f.name>>]
          /\ source \in f.texts
    /\ repo_url = ValidUrl
    /\ owner = <<"o">>
    /\ repo_name = <<"r">>
    /\ stack = <<>>
    /\ req = NoRequest
    /\ now = 0
    /\ reset_time = 0
    /\ wakeAt = 0
    /\ rate_limit_remaining = 0
    /\ file_count = 0
    /\ functions = <<>>
    /\ classes = <<>>
    /\ returned = EmptyNode
    /\ exc = "none"
    /\ served = 0
    /\ issued = 0
    /\ throttles = 0
    /\ repo_info = EmptyDict
    /\ language_stats = EmptyDict
    /\ readme_content = ""
    /\ repo_structure = EmptyNode
    /\ stage = "none"
    /\ features = <<>>
    /\ result = NoResult
    /\ runs = 0
    /\ feature_runs = 0

\* lines 357-370: the text of the file is handed to the extractor of its extension
AnalyzeContent ==
    /\ pc = "content"
    /\ LET got == Extract(Matcher(SplitExt(file_info.name)), source, file_info.path)
       IN  /\ functions' = Appended(functions, got.functions)
           /\ classes' = Appended(classes, got.classes)
    /\ pc' = "idle"
    /\ UNCHANGED <<stack, req, now, reset_time, wakeAt, rate_limit_remaining, file_count,
                   returned, exc, file_info, served, issued, throttles, ctorVars, analyzeVars,
                   source>>

NextExtract == AnalyzeContent

SpecExtract == InitExtract /\ [][NextExtract]_vars

---------------------------------------------------------------------------
(* The walk over listings with entries of every type the contents endpoint *)
(* gives (file, dir, symlink, submodule) and files of the extensions that  *)
(* have no matcher.                                                        *)

KindItems ==
    { Entry(<<"src">>, "dir", 0, FALSE),
      Entry(FilesKey, "dir", 0, FALSE),
      Entry(<<"link">>, "symlink", 10, TRUE),
      Entry(<<"vendor">>, "submodule", 0, FALSE),
      Entry(<<"lib", "C">>, "file", 10, TRUE),
      Entry(<<"tool", "go">>, "file", 10, FALSE),
      Entry(<<"main", "py">>, "file", 10, TRUE) }

\* the listings of a walk that meets no throttle and no failure
KindResponses(room) ==
    {Response(200, Header("int", 1), Missing, Body("list", n)) : n \in 0..room}

InitKinds == Init

NextKinds ==
    \/ CallFetchDirectoryContents
    \/ \E item \in KindItems : ProcessEntry(item)
    \/ ReturnResult
    \/ \E r \in ContentResponses : ContentResponse(r)
    \/ \E r \in KindResponses(MaxEntries - served) : ApiResponse(r)

SpecKinds == InitKinds /\ [][NextKinds]_vars

---------------------------------------------------------------------------
(* The claims.  What a claim says of names, quotas and answers is written  *)
(* here from the claim, not with the definitions of the model.             *)

\* a name that starts with '.' or is node_modules or __pycache__
IsHiddenOrNoise(name) ==
    \/ Len(name) >= 2 /\ name[1] = ""
    \/ name = <<"node_modules">>
    \/ name = <<"__pycache__">>

RECURSIVE NoHiddenOrNoise(_)
NoHiddenOrNoise(node) ==
    \A i \in DOMAIN node :
        /\ ~IsHiddenOrNoise(node[i].key)
        /\ \A j \in DOMAIN node[i].val.list : ~IsHiddenOrNoise(node[i].val.list[j])
        /\ NoHiddenOrNoise(node[i].val.sub)

\* the remaining quota a response carries, 0 when the header is missing
QuotaReadable(r) == r.ok /\ r.remaining.kind \in {"int", "missing"}
QuotaOf(r) == IF r.remaining.kind = "int" THEN r.remaining.v ELSE 0

\* a throttled response: status 403 with zero quota
IsThrottledResponse(r) == QuotaReadable(r) /\ r.status = 403 /\ QuotaOf(r) = 0

AllApiResponses == ApiResponses(MaxEntries)

\* C1: no node of the tree that fetch_directory_contents builds and returns, at any
\* depth, holds an entry (a directory key or a name of a file list) whose name
\* starts with '.' or is node_modules or __pycache__.
C1_NoHiddenOrNoiseEntry ==
    /\ NoHiddenOrNoise(returned)
    /\ \A i \in DOMAIN stack : NoHiddenOrNoise(stack[i].result)

\* a nested call has read a listing with a hidden or noise entry and a kept one
C1_Witness ==
    /\ Len(stack) >= 2
    /\ stack[Len(stack)].todo = 0
    /\ \E n \in stack[Len(stack)].seen : IsHiddenOrNoise(n)
    /\ stack[Len(stack)].result # EmptyNode

\* the listing fetch fails: a network error, or an error status that is no throttling
IsFetchFailure(r) ==
    \/ ~r.ok
    \/ r.status >= 400 /\ ~(r.status = 403 /\ r.remaining # Header("int", 1))

\* C2: when the listing fetch of a subdirectory fails (network error, non-throttling
\* error status), the subdirectory gets an empty node, the walk goes on with the
\* next entry of the parent listing and no error is propagated.
C2_FailedListingYieldsEmptyNode ==
    [][pc = "api_wait" => \A r \in AllApiResponses :
          (Len(stack) >= 2 /\ IsFetchFailure(r) /\ ApiResponse(r)) =>
              /\ exc' = "none"
              /\ pc' = "loop"
              /\ Len(stack') = Len(stack) - 1
              /\ stack'[Len(stack')].todo = stack[Len(stack')].todo
              /\ HasKey(stack'[Len(stack')].result, Last(stack[Len(stack)].path))
              /\ Get(stack'[Len(stack')].result, Last(stack[Len(stack)].path)) = DictVal(EmptyNode)]_vars

\* C3: after a throttled response (403, quota 0, reset time T) the next request is
\* issued no earlier than T + 1 and is the request that was throttled.
C3_RetryAfterReset ==
    [][/\ pc = "api_wait" => \A r \in AllApiResponses :
              (IsThrottledResponse(r) /\ r.reset.kind = "int" /\ ApiResponse(r)) =>
                  (pc' = "sleeping" /\ reset_time' = r.reset.v /\ req' = req)
       /\ (pc = "sleeping" /\ pc' # "sleeping") =>
              (pc' = "api_wait" /\ now' >= reset_time + 1 /\ req' = req /\ issued' = issued + 1)]_vars

\* the request of a subdirectory's listing has been issued again after a wait
C3_Witness ==
    /\ pc = "api_wait"
    /\ issued = 2
    /\ throttles = 1
    /\ Len(req.url.path) >= 1
    /\ now >= 1

\* C4: the branch of line 73 is entered (the call goes to sleep, or line 74, its
\* first line, raises) exactly on a 403 whose quota, 0 when the header is missing,
\* is zero; a 403 with quota left returns empty without a wait.
C4_ThrottleBranchIff ==
    [][pc = "api_wait" =>
          /\ \A r \in AllApiResponses :
                 (IsThrottledResponse(r) /\ ApiResponse(r)) =>
                     (pc' = "sleeping" \/ exc' = "ValueError:74")
          /\ (pc' = "sleeping" \/ exc' = "ValueError:74") =>
                 \A r \in AllApiResponses : ApiResponse(r) => IsThrottledResponse(r)
          /\ \A r \in AllApiResponses :
                 (r.ok /\ r.status = 403 /\ r.remaining = Header("int", 1) /\ ApiResponse(r)) =>
                     (pc' \in {"loop", "done"} /\ served' = served /\ now' = now)]_vars

\* the call sleeps after a 403 whose remaining-quota header is missing or zero
C4_Witness ==
    /\ pc = "sleeping"
    /\ rate_limit_remaining = 0
    /\ throttles = 1

\* C5: a call issues one request more than it received throttled responses.
C5_OneRequestPerThrottlePlusOne ==
    pc \in {"loop", "dl_wait", "done", "raised"} => issued = throttles + 1

\* C6: the call does not end while the upstream answers 403 with zero or missing
\* quota.
C6_NoEndWhileThrottled ==
    [][pc = "api_wait" => \A r \in AllApiResponses :
          (IsThrottledResponse(r) /\ ApiResponse(r)) => pc' \in {"api_wait", "sleeping"}]_vars

\* C7: _make_api_request never raises.
C7_NeverRaises == exc \notin {"ValueError:70", "ValueError:74"}

\* C8: every response with a readable remaining-quota header leaves its value
\* (0 when missing) in rate_limit_remaining, whatever the status: no step handles
\* such a response and leaves another value; and nothing but the handling of a
\* response changes rate_limit_remaining.
C8_QuotaFollowsLastResponse ==
    [][/\ pc = "api_wait" => \A r \in AllApiResponses :
              (QuotaReadable(r) /\ rate_limit_remaining' # QuotaOf(r)) => ~ApiResponse(r)
       /\ (pc # "api_wait" \/ ApiResponse(NetworkError)) =>
              rate_limit_remaining' = rate_limit_remaining]_vars

\* a listing arrived with quota 1 and is being read
C8_Witness ==
    /\ pc = "loop"
    /\ rate_limit_remaining = 1
    /\ stack[Len(stack)].todo > 0

\* the entry of a step is a file the walk does not skip
IsKeptFile(item) == ~IsHiddenOrNoise(item.name) /\ item.type = "file"

C10_LargeFileListedNotDownloaded ==
    [][pc = "loop" => \A item \in Items :
          (IsKeptFile(item) /\ item.size > 500000 /\ ProcessEntry(item)) =>
              /\ pc' # "dl_wait"
              /\ functions' = functions /\ classes' = classes
              /\ exc' = "none"
              /\ file_count' = file_count + 1
              /\ HasKey(stack'[Len(stack')].result, <<"__files">>)
              /\ \E j \in DOMAIN Get(stack'[Len(stack')].result, <<"__files">>).list :
                     Get(stack'[Len(stack')].result, <<"__files">>).list[j] = item.name]_vars

\* C11: a kept file whose extension is not in the allow-list is added to the file
\* list and counted, and it causes no content request and changes no element.
C11_OtherFileListedNotDownloaded ==
    [][pc = "loop" => \A item \in Items :
          (IsKeptFile(item) /\ ~IsCodeFile(item.name) /\ ProcessEntry(item)) =>
              /\ pc' = "loop"
              /\ req' = req
              /\ functions' = functions /\ classes' = classes
              /\ file_count' = file_count + 1
              /\ HasKey(stack'[Len(stack')].result, <<"__files">>)
              /\ Get(stack'[Len(stack')].result, <<"__files">>).isList
              /\ \E j \in DOMAIN Get(stack'[Len(stack')].result, <<"__files">>).list :
                     Get(stack'[Len(stack')].result, <<"__files">>).list[j] = item.name]_vars

\* every '__files' key of the node and of its sub-trees holds a list, every other
\* key a sub-tree
RECURSIVE WellShaped(_)
WellShaped(node) ==
    \A i \in DOMAIN node :
        IF node[i].key = <<"__files">>
        THEN node[i].val.isList
        ELSE ~node[i].val.isList /\ WellShaped(node[i].val.sub)

\* the names of the kept files among the entries read of a listing
KeptFilesRead(frame) ==
    {item.name : item \in {it \in Items : it.name \in frame.seen /\ IsKeptFile(it)}}

\* C16: in every node, returned or under construction, '__files' maps to the list
\* of exactly the kept file names read of its listing, and every other key maps to
\* a sub-tree.
C16_ReservedKeyHoldsFileList ==
    /\ WellShaped(returned)
    /\ \A i \in DOMAIN stack :
          /\ WellShaped(stack[i].result)
          /\ HasKey(stack[i].result, <<"__files">>) =>
                {Get(stack[i].result, <<"__files">>).list[j] :
                    j \in DOMAIN Get(stack[i].result, <<"__files">>).list} = KeptFilesRead(stack[i])
          /\ KeptFilesRead(stack[i]) # {} => HasKey(stack[i].result, <<"__files">>)

\* the number of file names in the file lists of a tree
RECURSIVE CountFiles(_)
CountFiles(node) ==
    IF node = <<>>
    THEN 0
    ELSE (IF Head(node).val.isList
          THEN Len(Head(node).val.list)
          ELSE CountFiles(Head(node).val.sub)) + CountFiles(Tail(node))

\* C18: after a walk that began with file_count = 0 and returned, file_count is the
\* number of file names in the file lists of the returned tree.
C18_FileCountIsNamesListed ==
    pc = "done" => file_count = CountFiles(returned)

\* the kept directories among the entries read of a listing
KeptDirsRead(frame) ==
    {item.name : item \in {it \in Items : it.name \in frame.seen
                                          /\ ~IsHiddenOrNoise(it.name) /\ it.type = "dir"}}

\* a request is outstanding
Outstanding == req # [url |-> [endpoint |-> "none", path |-> <<>>], params |-> "None"]

\* C19: a request is issued only when none is outstanding (the retry of a throttled
\* request is that request again), and an entry of a listing is read only by the
\* innermost call, with no request outstanding and with the sub-tree of every kept
\* directory read before it already stored in the node.
C19_SequentialDepthFirst ==
    [][/\ (Outstanding' /\ req' # req) => ~Outstanding
       /\ \A i \in DOMAIN stack :
             (i \in DOMAIN stack' /\ stack'[i].seen # stack[i].seen) =>
                 /\ i = Len(stack)
                 /\ pc = "loop"
                 /\ ~Outstanding
                 /\ \A j \in 1..(i - 1) : stack'[j] = stack[j]
                 /\ \A d \in KeptDirsRead(stack[i]) :
                        HasKey(stack[i].result, d) /\ ~Get(stack[i].result, d).isList]_vars

\* the root call reads on after a sub-directory and a download are complete
C19_Witness ==
    /\ pc = "loop"
    /\ Len(stack) = 1
    /\ stack[1].todo = 0
    /\ Cardinality(stack[1].seen) = 3
    /\ HasKey(stack[1].result, <<"src">>)
    /\ functions # <<>>

\* the segments of a URL path: its maximal runs of characters other than '/'
SegmentCount(path) ==
    Cardinality({i \in DOMAIN path : path[i] # "/" /\ (i = 1 \/ path[i - 1] = "/")})

\* C12: construction with a path of fewer than two segments raises, with no request
\* issued; with two or more it succeeds; a request is issued only by a constructed
\* analyzer, and no later step raises the error of the constructor.
C12_ShortPathFailsAtConstruction ==
    [][/\ pc = "new" =>
             IF SegmentCount(repo_url) < 2
             THEN pc' = "raised" /\ exc' = "ValueError:35" /\ ~Outstanding' /\ issued' = 0
             ELSE pc' = "idle" /\ exc' = "none" /\ ~Outstanding'
       /\ pc # "new" => exc' # "ValueError:35"
       /\ Outstanding' => (pc # "new" /\ SegmentCount(repo_url) >= 2)]_vars

\* a URL with one segment between slashes was refused
C12_Witness ==
    /\ exc = "ValueError:35"
    /\ SegmentCount(repo_url) = 1
    /\ Len(repo_url) >= 3
    /\ ~Outstanding

\* a text in capitals
Capitals(t) ==
    [i \in DOMAIN t |->
        IF \E n \in DOMAIN LowerCase : LowerCase[n] = t[i]
        THEN UpperCase[CHOOSE n \in DOMAIN LowerCase : LowerCase[n] = t[i]]
        ELSE t[i]]

\* sub occurs in text, case ignored: it does when both are written in capitals
OccursIgnoringCase(sub, capitalText) ==
    LET capitalSub == Capitals(sub)
    IN  \E k \in 0..(Len(capitalText) - Len(sub)) :
            \A i \in 1..Len(sub) : capitalText[k + i] = capitalSub[i]

\* C13: extract_features returns, without duplicates, the language keys and the
\* frameworks of the table with an indicator that occurs, case ignored, in the
\* text of repo_structure.
C13_FeaturesAreLanguagesAndFrameworks ==
    feature_runs = 1 =>
        /\ \A i, j \in DOMAIN features : features[i] = features[j] => i = j
        /\ LET text == Capitals(Str(repo_structure))
           IN  {features[i] : i \in DOMAIN features} =
                 {language_stats[i].key : i \in DOMAIN language_stats}
                 \cup {Frameworks[n].name : n \in
                         {m \in DOMAIN Frameworks :
                             \E i \in DOMAIN Frameworks[m].indicators :
                                 OccursIgnoringCase(Frameworks[m].indicators[i], text)}}

\* languages Python and JavaScript and a tree with Dockerfile gave a list with Docker
C13_Witness ==
    /\ feature_runs = 1
    /\ {"Python", "JavaScript", "Docker"} \subseteq {features[i] : i \in DOMAIN features}
    /\ \E i \in DOMAIN repo_structure :
          /\ repo_structure[i].val.isList
          /\ \E j \in DOMAIN repo_structure[i].val.list :
                repo_structure[i].val.list[j] = <<"Dockerfile">>

\* the text is that of a Python file and its extractor has run
PythonDone == pc = "idle" /\ file_info.name = <<"main", "py">>

\* C14: the Python extractor yields a function definition exactly when its name
\* does not start with one single underscore, with its parameters as its params.
C14_PythonSkipsSingleUnderscore ==
    PythonDone =>
        /\ \A i \in DOMAIN source :
              source[i].kw = "def" =>
                  ((\E j \in DOMAIN functions :
                       functions[j].name = source[i].name /\ functions[j].params = source[i].args)
                   <=> source[i].name.us # 1)
        /\ \A j \in DOMAIN functions :
              \E i \in DOMAIN source : source[i].kw = "def" /\ source[i].name = functions[j].name

\* 'def run(self, x):' and 'def _helper():' gave run with params 'self, x'
C14_Witness ==
    /\ PythonDone
    /\ \E i \in DOMAIN source : source[i].name = [us |-> 1, base |-> "helper"]
    /\ \E j \in DOMAIN functions :
          functions[j].name = [us |-> 0, base |-> "run"] /\ functions[j].params = "self, x"

\* the clause of a class declaration: its bases, or what follows extends,
\* implements or the colon; "" when it has none
DeclaredClause(d) ==
    IF "args" \in DOMAIN d THEN d.args
    ELSE IF "supers" \in DOMAIN d THEN d.supers.text
    ELSE IF d.extends.present THEN d.extends.text
    ELSE IF "implements" \in DOMAIN d THEN d.implements.text
    ELSE ""

\* C15: the i-th class element of a text carries the clause of the i-th class
\* declaration, "" when it has none.
C15_ClassCarriesClause ==
    pc = "idle" =>
        LET cls == SelectSeq(source, LAMBDA t : t.kw = "class")
        IN  /\ Len(classes) = Len(cls)
            /\ \A i \in DOMAIN classes : classes[i].inheritance = DeclaredClause(cls[i])

\* C17: when a call of analyze starts, functions and classes are empty and
\* file_count is 0, on every call of analyze on the analyzer.
C17_FreshStateAtAnalyze ==
    [][runs' = runs + 1 => (functions = <<>> /\ classes = <<>> /\ file_count = 0)]_vars

\* C20: a call of analyze goes through repo info, languages, readme, tree walk in
\* this order; extract_features runs only when the root call of
\* fetch_directory_contents has returned, on the tree it returned, and has run
\* exactly once when the call of analyze ends.
C20_FeaturesOnceAfterWalk ==
    [][/\ stage' # stage =>
             <<stage, stage'>> \in {<<"none", "repo_info">>, <<"repo_info", "languages">>,
                                    <<"languages", "readme">>, <<"readme", "walk">>}
             \/ stage' = "none"
       /\ feature_runs' = feature_runs + 1 =>
             (pc = "done" /\ stage = "walk" /\ stack = <<>> /\ repo_structure' = returned)
       /\ (stage # "none" /\ stage' = "none") => feature_runs' = 1]_vars

IsPrefix(s, t) == Len(s) <= Len(t) /\ SubSeq(t, 1, Len(s)) = s

\* C21: in every step of a walk the earlier value of functions is a prefix of the
\* later one, and so for classes: elements are added at the end only, none is
\* changed or removed.
C21_AccumulatorsAppendOnly ==
    [][IsPrefix(functions, functions') /\ IsPrefix(classes, classes')]_vars

\* the elements of two downloaded files are in functions and in classes
C21_Witness ==
    /\ pc = "loop"
    /\ Len(functions) > Len(PythonFunctions(PySource, <<>>))
    /\ Len(classes) > Len(PythonClasses(PySource, <<>>))

IsFailedDownload(r) == ~r.ok \/ r.status >= 400

\* C22: when the download of a file fails (no answer, or an answer with an error
\* status), functions and classes are unchanged, the file stays in the file list of
\* its node and in file_count, nothing is raised, and the loop over the listing
\* goes on with the entries that remain.
C22_FailedFileContributesNothing ==
    [][pc = "dl_wait" => \A r \in ContentResponses :
          (IsFailedDownload(r) /\ ContentResponse(r)) =>
              /\ functions' = functions /\ classes' = classes
              /\ file_count' = file_count
              /\ stack' = stack
              /\ \E i \in DOMAIN Get(stack[Len(stack)].result, FilesKey).list :
                     Get(stack[Len(stack)].result, FilesKey).list[i] = file_info.name
              /\ pc' = "loop" /\ exc' = "none"]_vars

\* main.py was requested and nothing came of it, and a later entry of the same
\* listing has been read and listed
C22_Witness ==
    /\ pc = "loop"
    /\ functions = <<>> /\ classes = <<>>
    /\ file_count = 2
    /\ \E k \in DOMAIN stack :
          /\ HasKey(stack[k].result, FilesKey)
          /\ Get(stack[k].result, FilesKey).isList
          /\ Len(Get(stack[k].result, FilesKey).list) = 2
          /\ Get(stack[k].result, FilesKey).list[1] = <<"main", "py">>

\* C25: the answer to a content request never changes rate_limit_remaining, is
\* followed by no wait and no second request, and a 403 answer, throttled or not,
\* adds no element and lets the loop over the listing go on.
C25_DownloadsBypassRateLimit ==
    [][pc = "dl_wait" =>
          /\ rate_limit_remaining' = rate_limit_remaining
          /\ reset_time' = reset_time /\ wakeAt' = wakeAt /\ now' = now
          /\ issued' = issued /\ throttles' = throttles
          /\ req' = [url |-> [endpoint |-> "none", path |-> <<>>], params |-> "None"]
          /\ pc' = "loop"
          /\ \A r \in ContentResponses :
                (r.ok /\ r.status = 403 /\ ContentResponse(r)) =>
                    functions' = functions /\ classes' = classes /\ stack' = stack]_vars

\* a content request is outstanding while the quota recorded is not zero: a
\* throttled answer to it would have to lower the quota if it were handled
C25_Witness ==
    /\ pc = "dl_wait"
    /\ rate_limit_remaining = 1
    /\ req.url.endpoint = "raw"

\* C26: no request, listing or content, is ever issued for a path with a segment
\* that starts with '.' or is node_modules or __pycache__; reading such an entry
\* issues no request, starts no call and leaves file_count as it is.
C26_NoRequestForSkipped ==
    [][/\ \A i \in DOMAIN req'.url.path : ~IsHiddenOrNoise(req'.url.path[i])
       /\ pc = "loop" => \A item \in Items :
              (IsHiddenOrNoise(item.name) /\ ProcessEntry(item)) =>
                  /\ req' = req /\ pc' = "loop"
                  /\ Len(stack') = Len(stack)
                  /\ file_count' = file_count /\ file_info' = file_info]_vars

\* a skipped directory and a skipped file were read in the running call, and
\* nothing was requested or counted for them
C26_Witness ==
    /\ pc = "loop"
    /\ {<<"node_modules">>, <<"", "env">>} \subseteq stack[Len(stack)].seen
    /\ file_count = 0
    /\ req = [url |-> [endpoint |-> "none", path |-> <<>>], params |-> "None"]

\* C27: reading an entry that is not skipped and whose type is not 'dir' (file,
\* symlink, submodule) appends its name to the file list of the running call,
\* adds one to file_count, and starts no call and no listing request for it.
C27_NonDirEntryIsFile ==
    [][pc = "loop" => \A item \in KindItems :
          (~IsHiddenOrNoise(item.name) /\ item.type # "dir" /\ ProcessEntry(item)) =>
              /\ file_count' = file_count + 1
              /\ Len(stack') = Len(stack)
              /\ HasKey(stack'[Len(stack)].result, <<"__files">>)
              /\ Get(stack'[Len(stack)].result, <<"__files">>).isList
              /\ LET names == Get(stack'[Len(stack)].result, <<"__files">>).list
                 IN  names # <<>> /\ names[Len(names)] = item.name
              /\ req'.url.endpoint # "contents"]_vars

NoMatcherExtensions == {"c", "cpp", "go", "rb", "php"}

HasNoMatcher(name) == Len(name) >= 2 /\ Lower(name[Len(name)]) \in NoMatcherExtensions

ReadmeUnavailable(r) ==
    \/ ~r.ok
    \/ r.status >= 400
    \/ r.body.kind # "json"
    \/ ~\E i \in DOMAIN r.body.value :
           /\ "key" \in DOMAIN r.body.value[i]
           /\ r.body.value[i].key = "content"
           /\ r.body.value[i].val.valid

\* C23: when the readme is unavailable, fetch_readme leaves readme_content as it
\* is, nothing is raised, and analyze goes on with the listing request of the root.
C23_ReadmeFailureIsSilent ==
    [][(pc = "stage_wait" /\ stage = "readme") => \A r \in StageResponses("readme") :
          (ReadmeUnavailable(r) /\ StageResponse(r)) =>
              /\ readme_content' = readme_content
              /\ pc' = "api_wait" /\ exc' = "none"
              /\ stage' = "walk"
              /\ req' = Request(ContentsUrl(<<>>), NoParams)]_vars

\* the length of the run of characters other than '/' at the head of a path
RECURSIVE RunLength(_)
RunLength(path) ==
    IF path = <<>> \/ Head(path) = "/" THEN 0 ELSE 1 + RunLength(Tail(path))

\* the segments of a URL path, in order
RECURSIVE Segments(_)
Segments(path) ==
    IF path = <<>> THEN <<>>
    ELSE IF Head(path) = "/" THEN Segments(Tail(path))
    ELSE <<SubSeq(path, 1, RunLength(path))>>
         \o Segments(SubSeq(path, RunLength(path) + 1, Len(path)))

\* C28: once an analyzer is constructed, owner and repo_name are not empty and are
\* the first and the second segment of the path of its URL.
C28_OwnerAndRepoAreSegments ==
    (pc # "new" /\ exc # "ValueError:35") =>
        /\ owner # <<>> /\ repo_name # <<>>
        /\ Len(Segments(repo_url)) >= 2
        /\ owner = Segments(repo_url)[1]
        /\ repo_name = Segments(repo_url)[2]

\* the text is that of a Kotlin file and its extractor has run
KotlinDone == pc = "idle" /\ file_info.name = <<"App", "kt">>

\* the declarations of functions with a receiver type, and the elements tagged as
\* extension functions
ReceiverDecls == {i \in DOMAIN source : source[i].kw = "fun" /\ source[i].receiver.present}
ExtensionElements == {j \in DOMAIN functions : functions[j].language = "Kotlin (Extension)"}

\* C24: every Kotlin function declared with a receiver type yields an element
\* named receiver.function and tagged 'Kotlin (Extension)', one for each
\* declaration (equal declarations are not merged), and the elements of plain
\* functions are tagged 'Kotlin'.
C24_ExtensionFunctionsTagged ==
    KotlinDone =>
        /\ \A i \in ReceiverDecls :
              \E j \in ExtensionElements :
                  functions[j].name = [receiver |-> source[i].receiver.text,
                                       name |-> source[i].name]
        /\ Cardinality(ExtensionElements) = Cardinality(ReceiverDecls)
        /\ \A j \in DOMAIN functions :
              functions[j].language \in {"Kotlin", "Kotlin (Extension)"}

====
